---- MODULE Spec2Model ----
(***************************************************************************)
(* Model of static/app.js: the two DOMContentLoaded handlers of the page   *)
(* (chart construction and the payment status / payment mode coupling)     *)
(* and the percentage callbacks of the pie and doughnut charts.            *)
(*                                                                         *)
(* Spec      : page load and the change events of the payment form.        *)
(* ChartSpec : one pie or doughnut chart rendered from a chart binding.    *)
(***************************************************************************)
EXTENDS Integers, Sequences, FiniteSets, TLC

VARIABLES
  bindings,      \* the window.__* chart bindings the page defines
  hasStatus,     \* document.getElementById('payStatus') is not null
  hasMode,       \* document.getElementById('payMode') is not null
  statusSel,     \* statusSel.value
  modeOptions,   \* the option values of the payMode field
  modeSel,       \* [value, disabled] of the payMode field
  charts,        \* container id -> number of `new Chart` calls on it
  listeners,     \* the change listeners of statusSel, in registration order
  pending,       \* the handlers of the event being dispatched, still to run
  phase,         \* "loading", "idle" or "dispatching"
  initStatus,    \* history: the pre-filled status value
  userStatus,    \* history: the status value as pre-filled or last chosen
  changed,       \* history: a change event has been fired since the load
  pre,           \* history: modeSel when the running/last event started
  refire,        \* history: the last event was a change with the same status
  clean,         \* history: modeSel untouched by the user since the last event
  chartId,       \* ChartSpec: the binding the page defines
  labels,        \* ChartSpec: binding.labels
  data,          \* ChartSpec: binding.data
  plugin,        \* ChartSpec: typeof ChartDataLabels !== 'undefined'
  metaPadded,    \* ChartSpec: meta.data has an element for every label
  outcome,       \* ChartSpec: "none", "rendered" or "error"
  legend,        \* ChartSpec: the legend texts
  datalabels,    \* ChartSpec: the on-chart label of every slice ("" = none)
  hovered,       \* ChartSpec: the hovered slice, 0 when none
  tooltip        \* ChartSpec: the tooltip text of the hovered slice

pageVars == <<bindings, hasStatus, hasMode, statusSel, modeOptions, modeSel,
              charts, listeners, pending, phase, initStatus, userStatus,
              changed, pre, refire, clean>>
chartVars == <<chartId, labels, data, plugin, metaPadded, outcome, legend,
               datalabels, hovered, tooltip>>
vars == <<pageVars, chartVars>>

(***************************************************************************)
(* Bounds of the model.                                                    *)
(***************************************************************************)
MaxLen == 3
MaxVal == 3
BigVal == 97

(***************************************************************************)
(* The page: bindings, containers and form fields.                         *)
(***************************************************************************)
Bindings == {"__monthlyChart", "__typeChart", "__donut", "__monthlyPaid"}

Containers == {"monthlySales", "typeChart", "donut", "monthlyPaid"}

ContainerOf(b) ==
  CASE b = "__monthlyChart" -> "monthlySales"
    [] b = "__typeChart"    -> "typeChart"
    [] b = "__donut"        -> "donut"
    [] b = "__monthlyPaid"  -> "monthlyPaid"

StatusValues == {"Paid", "Pending", "Partial", ""}

ModeValues == {"", "Pending", "UPI", "Cash"}

\* modeSel.value = v: a value that is no option leaves nothing selected, and
\* the field then reads "".
SetValue(opts, v) == IF v \in opts THEN v ELSE ""

\* if (statusSel && modeSel)
Coupled == hasStatus /\ hasMode

\* The four `if (window.__x) new Chart(getElementById(c), ...)` of a handler.
ConstructCharts(ch, bs) ==
  [c \in Containers |->
     ch[c] + (IF \E b \in bs : ContainerOf(b) = c THEN 1 ELSE 0)]

\* sync of the first handler.
Sync1(st, m, opts) ==
  IF st = "Pending"
  THEN [value |-> SetValue(opts, "Pending"), disabled |-> TRUE]
  ELSE [value |-> IF m.value = "Pending" THEN SetValue(opts, "UPI")
                  ELSE m.value,
        disabled |-> FALSE]

\* sync of the second handler; the first is the variant that does not clear
\* the value.
Sync2_NoClear(st, m, opts) ==
  IF st = "Paid"
  THEN [m EXCEPT !.disabled = FALSE]
  ELSE [m EXCEPT !.disabled = TRUE]

Sync2(st, m, opts) ==
  IF st = "Paid"
  THEN [m EXCEPT !.disabled = FALSE]
  ELSE [value |-> SetValue(opts, ""), disabled |-> TRUE]

\* The bookkeeping of a handler that has run: the next handler of the event,
\* or the event is over.
Finish ==
  /\ pending' = Tail(pending)
  /\ phase' = IF Tail(pending) = <<>> THEN "idle" ELSE phase
  /\ clean' = TRUE

InitPage ==
  /\ bindings \in SUBSET Bindings
  /\ hasStatus \in BOOLEAN
  /\ hasMode \in BOOLEAN
  /\ statusSel \in (IF hasStatus THEN StatusValues ELSE {""})
  /\ modeOptions \in (IF hasMode THEN SUBSET ModeValues ELSE {{}})
  /\ modeSel \in [value : modeOptions \cup {""},
                  disabled : (IF hasMode THEN BOOLEAN ELSE {FALSE})]
  /\ charts = [c \in Containers |-> 0]
  /\ listeners = <<>>
  /\ pending = <<"H1", "H2">>
  /\ phase = "loading"
  /\ initStatus = statusSel
  /\ userStatus = statusSel
  /\ changed = FALSE
  /\ pre = modeSel
  /\ refire = FALSE
  /\ clean = TRUE

\* The first DOMContentLoaded handler.
RunH1 ==
  /\ phase = "loading"
  /\ pending # <<>>
  /\ Head(pending) = "H1"
  /\ charts' = ConstructCharts(charts, bindings)
  /\ IF Coupled
     THEN /\ listeners' = Append(listeners, "sync1")
          /\ modeSel' = Sync1(statusSel, modeSel, modeOptions)
     ELSE UNCHANGED <<listeners, modeSel>>
  /\ Finish
  /\ UNCHANGED <<bindings, hasStatus, hasMode, statusSel, modeOptions,
                 initStatus, userStatus, changed, pre, refire>>

\* The second DOMContentLoaded handler, without the sync() call that follows
\* addEventListener.
RunH2_NoInitialSync ==
  /\ phase = "loading"
  /\ pending # <<>>
  /\ Head(pending) = "H2"
  /\ charts' = ConstructCharts(charts, bindings)
  /\ IF Coupled
     THEN /\ listeners' = Append(listeners, "sync2")
          /\ UNCHANGED modeSel
     ELSE UNCHANGED <<listeners, modeSel>>
  /\ Finish
  /\ UNCHANGED <<bindings, hasStatus, hasMode, statusSel, modeOptions,
                 initStatus, userStatus, changed, pre, refire>>

\* The second DOMContentLoaded handler.
RunH2 ==
  /\ phase = "loading"
  /\ pending # <<>>
  /\ Head(pending) = "H2"
  /\ charts' = ConstructCharts(charts, bindings)
  /\ IF Coupled
     THEN /\ listeners' = Append(listeners, "sync2")
          /\ modeSel' = Sync2(statusSel, modeSel, modeOptions)
     ELSE UNCHANGED <<listeners, modeSel>>
  /\ Finish
  /\ UNCHANGED <<bindings, hasStatus, hasMode, statusSel, modeOptions,
                 initStatus, userStatus, changed, pre, refire>>

\* The change listener the first handler registered.
RunSync1 ==
  /\ phase = "dispatching"
  /\ pending # <<>>
  /\ Head(pending) = "sync1"
  /\ modeSel' = Sync1(statusSel, modeSel, modeOptions)
  /\ Finish
  /\ UNCHANGED <<bindings, hasStatus, hasMode, statusSel, modeOptions, charts,
                 listeners, initStatus, userStatus, changed, pre, refire>>

\* The change listener the second handler registered, with the test written
\* as the assignment `statusSel.value = 'Paid'`.
RunSync2_AssignsStatus ==
  /\ phase = "dispatching"
  /\ pending # <<>>
  /\ Head(pending) = "sync2"
  /\ statusSel' = "Paid"
  /\ modeSel' = [modeSel EXCEPT !.disabled = FALSE]
  /\ Finish
  /\ UNCHANGED <<bindings, hasStatus, hasMode, modeOptions, charts,
                 listeners, initStatus, userStatus, changed, pre, refire>>

\* The change listener the second handler registered.
RunSync2 ==
  /\ phase = "dispatching"
  /\ pending # <<>>
  /\ Head(pending) = "sync2"
  /\ modeSel' = Sync2(statusSel, modeSel, modeOptions)
  /\ Finish
  /\ UNCHANGED <<bindings, hasStatus, hasMode, statusSel, modeOptions, charts,
                 listeners, initStatus, userStatus, changed, pre, refire>>

\* The change event of statusSel: its listeners run in registration order.
Dispatch ==
  /\ pending' = listeners
  /\ phase' = IF listeners = <<>> THEN "idle" ELSE "dispatching"
  /\ changed' = TRUE
  /\ pre' = modeSel

\* The user picks another payment status; the browser fires change.
UserSelectStatus ==
  /\ phase = "idle"
  /\ hasStatus
  /\ \E v \in StatusValues \ {statusSel} :
        /\ statusSel' = v
        /\ userStatus' = v
  /\ Dispatch
  /\ refire' = FALSE
  /\ UNCHANGED <<bindings, hasStatus, hasMode, modeOptions, modeSel, charts,
                 listeners, initStatus, clean>>

\* A change event on statusSel whose value did not change.
FireChange ==
  /\ phase = "idle"
  /\ hasStatus
  /\ Dispatch
  /\ refire' = clean
  /\ UNCHANGED <<bindings, hasStatus, hasMode, statusSel, modeOptions, modeSel,
                 charts, listeners, initStatus, userStatus, clean>>

\* The user picks a payment mode; a disabled field takes no input.
UserSelectMode ==
  /\ phase = "idle"
  /\ hasMode
  /\ ~modeSel.disabled
  /\ \E v \in modeOptions \ {modeSel.value} :
        modeSel' = [modeSel EXCEPT !.value = v]
  /\ clean' = FALSE
  /\ UNCHANGED <<bindings, hasStatus, hasMode, statusSel, modeOptions, charts,
                 listeners, pending, phase, initStatus, userStatus, changed,
                 pre, refire>>

NoChart ==
  /\ chartId = "none"
  /\ labels = <<>>
  /\ data = <<>>
  /\ plugin = FALSE
  /\ metaPadded = FALSE
  /\ outcome = "none"
  /\ legend = <<>>
  /\ datalabels = <<>>
  /\ hovered = 0
  /\ tooltip = ""

Init == InitPage /\ NoChart

Next ==
  \/ RunH1 /\ UNCHANGED chartVars
  \/ RunH2 /\ UNCHANGED chartVars
  \/ RunSync1 /\ UNCHANGED chartVars
  \/ RunSync2 /\ UNCHANGED chartVars
  \/ UserSelectStatus /\ UNCHANGED chartVars
  \/ FireChange /\ UNCHANGED chartVars
  \/ UserSelectMode /\ UNCHANGED chartVars

Spec == Init /\ [][Next]_vars

(***************************************************************************)
(* The pie (typeChart) and doughnut (donut) charts.                        *)
(*                                                                         *)
(* A JavaScript number that is the quotient of two integers is the record  *)
(* [n, d] (d = 0: NaN when n = 0, Infinity when n > 0).  The em dash of    *)
(* the legend text is written " -- ".                                      *)
(***************************************************************************)
RECURSIVE Reduce(_)
\* data.reduce((a, b) => a + b, 0)
Reduce(s) == IF s = <<>> THEN 0 ELSE Head(s) + Reduce(Tail(s))

\* val * 100 / total
Quot(val, total) == [n |-> val * 100, d |-> total]

\* The number 0 of `total ? ... : 0`.
Zero == [n |-> 0, d |-> 1]

\* pct >= 3 (false of NaN, true of Infinity); the first is the variant `> 3`.
AtLeast3_Strict(q) == IF q.d = 0 THEN q.n > 0 ELSE q.n > 3 * q.d

AtLeast3(q) == IF q.d = 0 THEN q.n > 0 ELSE q.n >= 3 * q.d

\* The integer n of Number.prototype.toFixed(1): n / 10 is as close to the
\* number as possible, the larger n on a tie; the first is the variant that
\* truncates.
RoundTenths_Truncate(q) == (10 * q.n) \div q.d

RoundTenths(q) == (20 * q.n + q.d) \div (2 * q.d)

\* x.toFixed(1), of a number that is not negative.
ToFixed1(q) ==
  IF q.d = 0
  THEN (IF q.n = 0 THEN "NaN" ELSE "Infinity")
  ELSE ToString(RoundTenths(q) \div 10) \o "." \o ToString(RoundTenths(q) % 10)

\* const pct = total ? (val*100/total).toFixed(1) : 0, as `${pct}` prints it;
\* the first is the variant without the `total ?` test.
PctText_NoGuard(val, total) == ToFixed1(Quot(val, total))

PctText(val, total) ==
  IF total # 0 THEN ToFixed1(Quot(val, total)) ELSE "0"

\* percentOpts.plugins.datalabels.formatter
Formatter(value, d) ==
  LET total == Reduce(d)
      pct == IF total # 0 THEN Quot(value, total) ELSE Zero
  IN IF AtLeast3(pct) THEN ToFixed1(pct) \o "%" ELSE ""

\* percentOpts.plugins.tooltip.callbacks.label
PercentOptsTooltipLabel(label, val, d) ==
  label \o ": " \o ToString(val) \o " (" \o PctText(val, Reduce(d)) \o "%)"

\* The tooltip label callback of typeChart.
TypeChartTooltipLabel(label, val, d) ==
  label \o ": " \o ToString(val) \o " (" \o PctText(val, Reduce(d)) \o "%)"

\* legend.labels.generateLabels of typeChart: one text per label, a missing
\* value read as 0 (data[i] ?? 0).
GenerateLabels(ls, d) ==
  [i \in 1..Len(ls) |->
     LET val == IF i <= Len(d) THEN d[i] ELSE 0
     IN ls[i] \o " -- " \o PctText(val, Reduce(d)) \o "% ("
          \o ToString(val) \o ")"]

\* The legend of the donut, whose options (percentOpts) set no generateLabels:
\* the chart library's own legend, one text per label, the label itself.
DonutLegend(ls) == ls

\* generateLabels reads meta.data[i].hidden: a TypeError when the chart has no
\* element i, that is when there are more labels than values and the chart
\* keeps one element per value.
GenerateLabelsThrows == Len(labels) > Len(data) /\ ~metaPadded

\* The on-chart labels: typeChart sets datalabels.display to false; the donut
\* formats every slice with Formatter when the plugin is loaded.
OnChartLabels(id, d, hasPlugin) ==
  [i \in 1..Len(d) |->
     IF id = "__donut" /\ hasPlugin THEN Formatter(d[i], d) ELSE ""]

\* context.label of a tooltip: the slice's label, '' when it has none.
LabelAt(i) == IF i <= Len(labels) THEN labels[i] ELSE ""

Values == (0..MaxVal) \cup {BigVal}

LabelNames == [i \in 1..MaxLen |-> "L" \o ToString(i)]

SeqsUpTo(S, n) == UNION {[1..k -> S] : k \in 0..n}

InitChart ==
  /\ chartId \in {"__typeChart", "__donut"}
  /\ labels \in {SubSeq(LabelNames, 1, k) : k \in 0..MaxLen}
  /\ data \in SeqsUpTo(Values, MaxLen)
  /\ plugin \in BOOLEAN
  /\ metaPadded \in BOOLEAN
  /\ outcome = "none"
  /\ legend = <<>>
  /\ datalabels = <<>>
  /\ hovered = 0
  /\ tooltip = ""

\* new Chart(...) of the second handler on the typeChart container.
RenderTypeChart ==
  /\ chartId = "__typeChart"
  /\ outcome = "none"
  /\ IF GenerateLabelsThrows
     THEN /\ outcome' = "error"
          /\ UNCHANGED <<legend, datalabels>>
     ELSE /\ outcome' = "rendered"
          /\ legend' = GenerateLabels(labels, data)
          /\ datalabels' = OnChartLabels(chartId, data, plugin)
  /\ UNCHANGED <<chartId, labels, data, plugin, metaPadded, hovered, tooltip>>

\* new Chart(...) of the second handler on the donut container.
RenderDonut ==
  /\ chartId = "__donut"
  /\ outcome = "none"
  /\ outcome' = "rendered"
  /\ legend' = DonutLegend(labels)
  /\ datalabels' = OnChartLabels(chartId, data, plugin)
  /\ UNCHANGED <<chartId, labels, data, plugin, metaPadded, hovered, tooltip>>

\* The pointer moves onto slice i: the tooltip label callback of the chart.
Hover ==
  /\ outcome = "rendered"
  /\ \E i \in 1..Len(data) :
        /\ i # hovered
        /\ hovered' = i
        /\ tooltip' = IF chartId = "__typeChart"
                      THEN TypeChartTooltipLabel(LabelAt(i), data[i], data)
                      ELSE PercentOptsTooltipLabel(LabelAt(i), data[i], data)
  /\ UNCHANGED <<chartId, labels, data, plugin, metaPadded, outcome, legend,
                 datalabels>>

NoPage ==
  /\ bindings = {chartId}
  /\ hasStatus = FALSE
  /\ hasMode = FALSE
  /\ statusSel = ""
  /\ modeOptions = {}
  /\ modeSel = [value |-> "", disabled |-> FALSE]
  /\ charts = [c \in Containers |-> 0]
  /\ listeners = <<>>
  /\ pending = <<>>
  /\ phase = "idle"
  /\ initStatus = ""
  /\ userStatus = ""
  /\ changed = FALSE
  /\ pre = modeSel
  /\ refire = FALSE
  /\ clean = TRUE

ChartInit == InitChart /\ NoPage

ChartNext ==
  \/ RenderTypeChart /\ UNCHANGED pageVars
  \/ RenderDonut /\ UNCHANGED pageVars
  \/ Hover /\ UNCHANGED pageVars

ChartSpec == ChartInit /\ [][ChartNext]_vars

(***************************************************************************)
(* Claims about the page (checked under Spec).                             *)
(***************************************************************************)
\* The coupling rule of the specification: enabled exactly under "Paid",
\* otherwise disabled with the empty value.
Rule(st, m) ==
  IF st = "Paid" THEN ~m.disabled ELSE m.disabled /\ m.value = ""

\* C1: once every handler of the load or of a change event has run, the mode
\* field is enabled iff the status is exactly "Paid"; under every other status
\* it is disabled and its value is "".
C1_PaymentCoupling ==
  (phase = "idle" /\ Coupled) => Rule(statusSel, modeSel)

\* A change event to a status other than Paid/Pending has cleared and
\* disabled a mode field that held a selection and was enabled.
C1_Witness ==
  /\ phase = "idle" /\ Coupled /\ changed
  /\ statusSel = "Partial"
  /\ pre = [value |-> "UPI", disabled |-> FALSE]
  /\ modeSel = [value |-> "", disabled |-> TRUE]

\* C2: with no change event fired, the loaded page has the mode field in the
\* state the rule gives for the pre-filled status value.
C2_InitialStateOnLoad ==
  (phase = "idle" /\ ~changed /\ Coupled) =>
     /\ statusSel = initStatus
     /\ initStatus = "Paid" => ~modeSel.disabled
     /\ initStatus # "Paid" => modeSel.disabled /\ modeSel.value = ""

\* A form pre-filled with "Paid" and a disabled mode field has loaded with
\* the mode field enabled.
C2_Witness ==
  /\ phase = "idle" /\ ~changed /\ Coupled
  /\ initStatus = "Paid"
  /\ pre.disabled
  /\ ~modeSel.disabled

\* C3: when the rule has run under status "Paid" (load or change event, all
\* handlers done), the mode value is the one it had before they ran.
C3_SelectionPreserved ==
  (phase = "idle" /\ Coupled /\ clean /\ statusSel = "Paid") =>
     modeSel.value = pre.value

\* C9: no chart is constructed on a container whose binding is absent, and at
\* most one on a container whose binding is present, over both handlers.
C9_OneChartPerContainer ==
  \A b \in Bindings :
     /\ b \notin bindings => charts[ContainerOf(b)] = 0
     /\ b \in bindings => charts[ContainerOf(b)] <= 1

\* C10: no handler writes the status value, and a change event fired with an
\* unchanged status leaves the mode field (value and disabled flag) as the
\* previous run of the rule left it.
C10_IdempotentCoupling ==
  /\ statusSel = userStatus
  /\ (phase = "idle" /\ Coupled /\ refire /\ clean) => modeSel = pre

\* A change event was fired again under "Paid" with a selection in place.
C10_Witness ==
  /\ phase = "idle" /\ Coupled /\ refire /\ clean
  /\ statusSel = "Paid"
  /\ modeSel = [value |-> "UPI", disabled |-> FALSE]

(***************************************************************************)
(* Claims about the charts (checked under ChartSpec).                      *)
(***************************************************************************)
\* Every value of the dataset is 0 (values are not negative, so this is a
\* total of 0; the empty dataset included).
ZeroTotal == \A i \in 1..Len(data) : data[i] = 0

\* Slice i is below 3% of the total, a total of 0 counting as 0%.
Below3(i) ==
  LET total == Reduce(data)
  IN total = 0 \/ 100 * data[i] < 3 * total

\* The text of a percentage given in tenths, with one decimal.
TenthsText(n) == ToString(n \div 10) \o "." \o ToString(n % 10)

RECURSIVE SumTo(_, _)
SumTo(f, k) == IF k = 0 THEN 0 ELSE f[k] + SumTo(f, k - 1)

Abs(x) == IF x < 0 THEN -x ELSE x

\* C4: over a dataset whose total is 0, the legend and the tooltip report 0%,
\* the on-slice formatter yields no label, nothing is NaN or Infinity, and a
\* binding with as many labels as values renders without an error.
C4_ZeroTotalNeverRaises ==
  (outcome # "none" /\ ZeroTotal) =>
     /\ Len(labels) = Len(data) => outcome = "rendered"
     /\ outcome = "rendered" =>
          /\ chartId = "__typeChart" =>
               \A i \in 1..Len(labels) : legend[i] = labels[i] \o " -- 0% (0)"
          /\ \A i \in 1..Len(data) : datalabels[i] = ""
          /\ hovered # 0 => tooltip = LabelAt(hovered) \o ": 0 (0%)"

\* The pie chart of a dataset of two zeros is rendered and a slice hovered.
C4_Witness ==
  /\ outcome = "rendered"
  /\ chartId = "__typeChart"
  /\ data = <<0, 0>>
  /\ Len(labels) = 2
  /\ hovered = 1

\* C5: for the pie and for the donut, the tooltip text carries the slice's
\* percentage and the legend text of every slice is "{label} -- {pct}%
\* ({value})".
C5_PercentageInTooltipAndLegend ==
  (outcome = "rendered" /\ Len(labels) = Len(data)) =>
     /\ \A i \in 1..Len(data) :
          legend[i] = labels[i] \o " -- " \o PctText(data[i], Reduce(data))
                        \o "% (" \o ToString(data[i]) \o ")"
     /\ hovered # 0 =>
          tooltip = labels[hovered] \o ": " \o ToString(data[hovered]) \o " ("
                      \o PctText(data[hovered], Reduce(data)) \o "%)"

\* C6 as stated: on the pie and on the donut the on-chart label of a slice is
\* empty exactly when the slice is below 3% (read with the ChartDataLabels
\* plugin loaded, without which no chart has on-chart labels).
C6_ThresholdOnBothCharts ==
  (outcome = "rendered" /\ plugin) =>
     \A i \in 1..Len(data) : (datalabels[i] = "") <=> Below3(i)

\* C6 as amended: on the donut, with the ChartDataLabels plugin loaded, the
\* on-chart label of a slice is empty exactly when the slice is below 3% (a
\* total of 0 counting as 0%) and is otherwise its percentage with one decimal
\* and "%"; the pie chart, and the donut without the plugin, show no on-chart
\* label at all.
C6_ThresholdOnDonut ==
  outcome = "rendered" =>
     \A i \in 1..Len(data) :
        IF chartId = "__donut" /\ plugin
        THEN /\ (datalabels[i] = "") <=> Below3(i)
             /\ ~Below3(i) =>
                  datalabels[i] =
                    TenthsText(RoundTenths(Quot(data[i], Reduce(data)))) \o "%"
        ELSE datalabels[i] = ""

\* The donut shows "3.0%" on a slice of exactly 3%.
C6_Witness ==
  /\ outcome = "rendered"
  /\ chartId = "__donut"
  /\ plugin
  /\ \E i \in 1..Len(data) :
        /\ 100 * data[i] = 3 * Reduce(data)
        /\ data[i] > 0
        /\ datalabels[i] = "3.0%"

\* C7: a binding whose labels and values differ in length ends in an error;
\* no chart is rendered from it.
C7_MalformedFailsFast ==
  (outcome # "none" /\ Len(labels) # Len(data)) => outcome = "error"

\* C8: over a non-empty dataset with a non-zero total, the percentages the
\* tooltip and the legend report (value * 100 / total to one decimal) sum to
\* 100 within 0.05 per slice.
C8_PercentagesSumTo100 ==
  (outcome = "rendered" /\ data # <<>> /\ Reduce(data) # 0) =>
     LET total == Reduce(data)
         p == [i \in 1..Len(data) |-> RoundTenths(Quot(data[i], total))]
     IN /\ 2 * Abs(SumTo(p, Len(data)) - 1000) <= Len(data)
        /\ hovered # 0 =>
             tooltip = LabelAt(hovered) \o ": " \o ToString(data[hovered])
                         \o " (" \o TenthsText(p[hovered]) \o "%)"
        /\ (chartId = "__typeChart" /\ Len(labels) = Len(data)) =>
             \A i \in 1..Len(data) :
                legend[i] = labels[i] \o " -- " \o TenthsText(p[i]) \o "% ("
                              \o ToString(data[i]) \o ")"

\* A pie chart of three slices whose reported percentages do not sum to
\* exactly 100, with a slice hovered.
C8_Witness ==
  /\ outcome = "rendered"
  /\ chartId = "__typeChart"
  /\ Len(data) = 3
  /\ Len(labels) = 3
  /\ Reduce(data) # 0
  /\ hovered # 0
  /\ SumTo([i \in 1..3 |-> RoundTenths(Quot(data[i], Reduce(data)))], 3) # 1000

====
